---- MODULE Spec2Model ----
(***************************************************************************)
(* A model of the elevation-percentile filter (elev_percentile.rs): the    *)
(* filter-size normalisation, the binning pass, the sliding-window         *)
(* histogram of the percentile pass, and the row-block dispatch with       *)
(* channel-based assembly used by both passes; of its argument loop; and   *)
(* of the flightline-overlap tool (lidar_flightline_overlap.rs): the       *)
(* point index, the grid layout and the per-cell gap clustering.           *)
(*                                                                         *)
(* Numbers.  An elevation z (an f64 in the program) is represented by the  *)
(* integer z * ZScale (thousandths), so floor(z * 10^2) is the integer     *)
(* quotient (z * multiplier) \div ZScale.  An output percentile is         *)
(* represented the same way, rounded down to a thousandth.  The i64        *)
(* minimum used as the bin sentinel is represented by the least integer    *)
(* of the model checker.                                                   *)
(***************************************************************************)
EXTENDS Integers, Sequences, FiniteSets, TLC

VARIABLES
    input,          \* the input raster: [0..rows-1 -> [0..columns-1 -> z]]
    minimum,        \* input.configs.minimum (declared)
    maximum,        \* input.configs.maximum (declared)
    rows,           \* input.configs.rows
    columns,        \* input.configs.columns
    arg_x,          \* filter_size_x as passed to run
    arg_y,          \* filter_size_y as passed to run
    filter_size_x,  \* kernel width
    filter_size_y,  \* kernel height
    midpoint_x,
    midpoint_y,
    min_bin,
    num_bins,
    binned_data,    \* Array2D<i64>: [0..rows-1 -> [0..columns-1 -> bin]]
    row,            \* stage B worker: the row being scanned
    col,            \* stage B worker: the next column to process
    histo,          \* stage B worker: the window histogram
    n,              \* stage B worker: valid cells in the window
    n_less_than,    \* stage B worker: valid cells below the reference bin
    old_bin_val,    \* stage B worker: reference bin of the previous column
    data,           \* stage B worker: the output row being filled
    panicked,       \* stage B worker: an index was out of range
    num_procs,      \* num_cpus::get()
    pc,             \* position of the main thread in run
    id,             \* dispatch loop: number of workers spawned in this pass
    ending_row,     \* dispatch loop: ending_row
    workers,        \* the spawned threads of the current pass
    chan,           \* the mpsc channel: messages sent and not yet received
    output,         \* the output raster
    received,       \* main thread: iterations of the receive loop done
    writes,         \* per pass and row, the number of set_row_data calls
    args,           \* the command line arguments handed to the tool
    i,              \* the index of an argument loop or of a point loop
    grid_res,       \* flightline overlap: the cell size
    frs,            \* flightline overlap: the fixed-radius search index
    gps_times,      \* flightline overlap: the GPS time of each point
    west,           \* flightline overlap: input.header.min_x
    north           \* flightline overlap: input.header.max_y

vars == << input, minimum, maximum, rows, columns, arg_x, arg_y,
           filter_size_x, filter_size_y, midpoint_x, midpoint_y,
           min_bin, num_bins, binned_data,
           row, col, histo, n, n_less_than, old_bin_val, data, panicked,
           num_procs, pc, id, ending_row, workers, chan, output, received,
           writes, args, i, grid_res, frs, gps_times, west, north >>

toolVars   == << args, i, grid_res, frs, gps_times, west, north >>
rasterVars == << input, minimum, maximum, rows, columns >>
kernelVars == << arg_x, arg_y, filter_size_x, filter_size_y,
                 midpoint_x, midpoint_y >>
binVars    == << min_bin, num_bins, binned_data >>
scanVars   == << row, col, histo, n, n_less_than, old_bin_val, data,
                 panicked >>
runVars    == << num_procs, pc, id, ending_row, workers, chan, output,
                 received, writes >>

----------------------------------------------------------------------------
(* Bounds of the model.                                                    *)

NumRows   == 2      \* rows of the binned grids scanned in SpecB
NumCols   == 3      \* columns of the binned grids scanned in SpecB
MaxBin    == 1      \* largest bin of the binned grids scanned in SpecB
MaxFilter == 8      \* largest requested filter size

----------------------------------------------------------------------------
(* Units and program constants.                                            *)

ZScale == 10 * 10 * 10

num_sig_digits == 2

multiplier == 10 ^ num_sig_digits

bin_nodata == -2147483647 - 1

nodata == (-32768) * ZScale

Min(a, b) == IF a < b THEN a ELSE b

Max(a, b) == IF a > b THEN a ELSE b

----------------------------------------------------------------------------
(* Filter size normalisation (run, lines 115-128).                         *)

IsEvenMutant(s) == FALSE

\* (s as f64 / 2).floor() == s as f64 / 2
IsEven(s) == (s \div 2) * 2 = s

ClampSizeMutant(s) == s

ClampSize(s) == IF s < 3 THEN 3 ELSE s

NormalizeSize(s) ==
    LET c == ClampSize(s) IN IF IsEven(c) THEN c + 1 ELSE c

\* (size as f64 / 2).floor() as isize
Midpoint(size) == size \div 2

----------------------------------------------------------------------------
(* Binning (run, lines 153-160 and 184-193).                               *)

FloorBinMutant(z) ==
    IF z >= 0 THEN (z * multiplier) \div ZScale
    ELSE -(((-z) * multiplier) \div ZScale)

\* (z * multiplier).floor() as i64
FloorBin(z) == (z * multiplier) \div ZScale

MinBin(mn) == FloorBin(mn)

NumBins(mn, mx) == FloorBin(mx) - MinBin(mn) + 1

BinValueMutant(z) == FloorBin(z)

\* val = (z*multiplier).floor() as i64 - min_bin
BinValue(z) == FloorBin(z) - min_bin

\* lines 185-192: the row of bins a binning worker sends for row r
BinRow(r) ==
    [c \in 0..(columns - 1) |->
        IF input[r][c] # nodata THEN BinValue(input[r][c]) ELSE bin_nodata]

----------------------------------------------------------------------------
(* Array2D reads: a read outside the grid yields the nodata value.         *)

get_value(r, c) ==
    IF r >= 0 /\ r < rows /\ c >= 0 /\ c < columns
    THEN binned_data[r][c]
    ELSE bin_nodata

----------------------------------------------------------------------------
(* Stage B: the body of the column loop (run, lines 243-313), on a record  *)
(* of the worker's locals.                                                 *)

LessThanMutant(a, b) == a <= b

\* the comparator of the percentile: bin_val_n < bin_val
LessThan(a, b) == a < b

TrailingColMutant(c) == c - midpoint_x

\* the column that leaves the window when the centre moves to column c
TrailingCol(c) == c - midpoint_x - 1

LeadingCol(c) == c + midpoint_x

\* n_less_than / n * 100.0, in thousandths
Percentile(l, m) == (l * 100 * ZScale) \div m

\* histo[v] += d; n += d; if v < ref { n_less_than += d }.  An index outside
\* the histogram panics.
Count(st, v, ref, d) ==
    IF v \notin DOMAIN st.histo
    THEN [st EXCEPT !.panicked = TRUE]
    ELSE [st EXCEPT !.histo[v] = @ + d,
                    !.n = @ + d,
                    !.n_less_than = IF LessThan(v, ref) THEN @ + d ELSE @]

\* for row2 in start_row..end_row+1: count the cell (row2, c) with weight d
RECURSIVE CountColumn(_, _, _, _, _, _)
CountColumn(st, row2, end_row, c, ref, d) ==
    IF row2 > end_row \/ st.panicked THEN st
    ELSE LET bin_val_n == get_value(row2, c) IN
         IF bin_val_n # bin_nodata
         THEN CountColumn(Count(st, bin_val_n, ref, d),
                          row2 + 1, end_row, c, ref, d)
         ELSE CountColumn(st, row2 + 1, end_row, c, ref, d)

\* m = 0; for v in lo..hi { m += histo[v as usize] }, summed by halves to
\* keep the evaluation shallow; -1 stands for an index outside the histogram
RECURSIVE SumRange(_, _, _)
SumRange(h, lo, hi) ==
    IF lo >= hi THEN 0
    ELSE IF hi = lo + 1 THEN h[lo]
    ELSE LET mid == (lo + hi) \div 2 IN
         SumRange(h, lo, mid) + SumRange(h, mid, hi)

SumHisto(h, lo, hi) ==
    IF lo >= hi THEN 0
    ELSE IF lo \notin DOMAIN h \/ (hi - 1) \notin DOMAIN h THEN -1
    ELSE SumRange(h, lo, hi)

ShiftReferenceMutant(st, bin_val) == st

\* lines 271-283: n_less_than moves from the old reference to the new one
ShiftReference(st, bin_val) ==
    IF st.old_bin_val < bin_val
    THEN LET m == SumHisto(st.histo, st.old_bin_val, bin_val) IN
         IF m = -1 THEN [st EXCEPT !.panicked = TRUE]
         ELSE [st EXCEPT !.n_less_than = @ + m]
    ELSE IF st.old_bin_val > bin_val
    THEN LET m == SumHisto(st.histo, bin_val, st.old_bin_val) IN
         IF m = -1 THEN [st EXCEPT !.panicked = TRUE]
         ELSE [st EXCEPT !.n_less_than = @ - m]
    ELSE st

\* lines 246-283: remove the trailing column, add the leading column, shift
IncrementalUpdate(st, r, c, bin_val) ==
    LET start_row == r - midpoint_y
        end_row   == r + midpoint_y
        removed == CountColumn(st, start_row, end_row, TrailingCol(c),
                               st.old_bin_val, -1)
        added   == CountColumn(removed, start_row, end_row, LeadingCol(c),
                               st.old_bin_val, 1)
    IN  IF added.panicked THEN added ELSE ShiftReference(added, bin_val)

\* for col2 in start_col..end_col+1 { for row2 in start_row..end_row+1 ... }
RECURSIVE CountWindow(_, _, _, _, _, _)
CountWindow(st, col2, end_col, start_row, end_row, ref) ==
    IF col2 > end_col \/ st.panicked THEN st
    ELSE CountWindow(CountColumn(st, start_row, end_row, col2, ref, 1),
                     col2 + 1, end_col, start_row, end_row, ref)

\* lines 286-303: initialize the histogram from the whole window
Rebuild(st, r, c, bin_val) ==
    CountWindow([st EXCEPT !.histo = [v \in 0..(num_bins - 1) |-> 0],
                           !.n = 0,
                           !.n_less_than = 0],
                c - midpoint_x, c + midpoint_x,
                r - midpoint_y, r + midpoint_y, bin_val)

\* lines 307-311: the value written to data[col]
Emit(st) ==
    IF st.n > 0 THEN Percentile(st.n_less_than, st.n) ELSE nodata

\* lines 243-313: one iteration of the column loop
StepCol(st, r, c) ==
    LET bin_val == get_value(r, c)
        upd == IF bin_val # bin_nodata
               THEN IF st.old_bin_val # bin_nodata
                    THEN IncrementalUpdate(st, r, c, bin_val)
                    ELSE Rebuild(st, r, c, bin_val)
               ELSE st
    IN  IF upd.panicked THEN upd
        ELSE [upd EXCEPT !.data[c] = Emit(upd),
                         !.old_bin_val = bin_val]

RowInitMutant(st) == [st EXCEPT !.data = [c \in 0..(columns - 1) |-> nodata]]

\* lines 237-241: the locals are reset at the start of every row
RowInit(st) ==
    [histo |-> << >>, n |-> 0, n_less_than |-> 0,
     old_bin_val |-> bin_nodata,
     data |-> [c \in 0..(columns - 1) |-> nodata],
     panicked |-> FALSE]

\* the locals of a stage B worker before its first row
NoLocals ==
    [histo |-> << >>, n |-> 0, n_less_than |-> 0,
     old_bin_val |-> bin_nodata, data |-> << >>, panicked |-> FALSE]

RECURSIVE ScanFrom(_, _, _)
ScanFrom(st, r, c) ==
    IF c >= columns \/ st.panicked THEN st
    ELSE ScanFrom(StepCol(st, r, c), r, c + 1)

\* lines 234-314: the locals of a worker after the column loop of row r
ScanRow(st, r) == ScanFrom(RowInit(st), r, 0)

----------------------------------------------------------------------------
(* SpecB: one stage B worker scanning the rows of a binned grid, one       *)
(* column per step.  The grids are all grids of NumRows x NumCols bins in  *)
(* 0..MaxBin or nodata; the kernels are the normalised sizes.              *)

Locals ==
    [histo |-> histo, n |-> n, n_less_than |-> n_less_than,
     old_bin_val |-> old_bin_val, data |-> data, panicked |-> panicked]

SetLocals(st) ==
    /\ histo' = st.histo
    /\ n' = st.n
    /\ n_less_than' = st.n_less_than
    /\ old_bin_val' = st.old_bin_val
    /\ data' = st.data
    /\ panicked' = st.panicked

BinVals == {bin_nodata} \cup (0..MaxBin)

KernelSizes == { NormalizeSize(s) : s \in 0..MaxFilter }

ScanKernels == { k \in KernelSizes : k <= 5 }

IdleTool ==
    /\ args = << >>
    /\ i = 0
    /\ grid_res = 0
    /\ frs = {}
    /\ gps_times = << >>
    /\ west = 0
    /\ north = 0

IdleRun ==
    /\ num_procs = 1
    /\ pc = "idle"
    /\ id = 0
    /\ ending_row = 0
    /\ workers = << >>
    /\ chan = << >>
    /\ output = << >>
    /\ received = 0
    /\ writes = << >>

IdleScan ==
    /\ row = 0
    /\ col = 0
    /\ histo = << >>
    /\ n = 0
    /\ n_less_than = 0
    /\ old_bin_val = bin_nodata
    /\ data = << >>
    /\ panicked = FALSE

InitB ==
    /\ IdleTool
    /\ rows = NumRows
    /\ columns = NumCols
    /\ input = << >>
    /\ minimum = 0
    /\ maximum = 0
    /\ min_bin = 0
    /\ num_bins = MaxBin + 1
    /\ binned_data \in [0..(NumRows - 1) -> [0..(NumCols - 1) -> BinVals]]
    /\ filter_size_x \in ScanKernels
    /\ filter_size_y \in ScanKernels
    /\ arg_x = filter_size_x
    /\ arg_y = filter_size_y
    /\ midpoint_x = Midpoint(filter_size_x)
    /\ midpoint_y = Midpoint(filter_size_y)
    /\ row = 0
    /\ col = 0
    /\ histo = << >>
    /\ n = 0
    /\ n_less_than = 0
    /\ old_bin_val = bin_nodata
    /\ data = [c \in 0..(NumCols - 1) |-> nodata]
    /\ panicked = FALSE
    /\ IdleRun

\* one iteration of `for col in 0..columns`
ColStep ==
    /\ col < columns
    /\ ~panicked
    /\ SetLocals(StepCol(Locals, row, col))
    /\ col' = col + 1
    /\ row' = row
    /\ UNCHANGED << toolVars, rasterVars, kernelVars, binVars, runVars >>

\* the next iteration of `for row in starting_row..ending_row`
RowStep ==
    /\ col = columns
    /\ row + 1 < rows
    /\ SetLocals(RowInit(Locals))
    /\ col' = 0
    /\ row' = row + 1
    /\ UNCHANGED << toolVars, rasterVars, kernelVars, binVars, runVars >>

NextB == ColStep \/ RowStep

SpecB == InitB /\ [][NextB]_vars

----------------------------------------------------------------------------
(* The percentile rank of the glossary, counted directly on the grid.      *)

Window(r, c) ==
    { p \in ((r - midpoint_y)..(r + midpoint_y))
              \X ((c - midpoint_x)..(c + midpoint_x)) :
        get_value(p[1], p[2]) # bin_nodata }

Below(r, c) ==
    { p \in Window(r, c) : get_value(p[1], p[2]) < get_value(r, c) }

Rank(r, c) ==
    (100 * ZScale * Cardinality(Below(r, c))) \div Cardinality(Window(r, c))

\* C1: at every processed cell whose centre bin is valid, the value emitted
\* is 100 * L / N, L and N counted on the clipped window, whether the state
\* came from a rebuild or from a chain of incremental updates.
C1_PercentileIsRank ==
    \A c \in 0..(col - 1) :
        get_value(row, c) # bin_nodata => data[c] = Rank(row, c)

\* a row with no nodata centre has been scanned to its end through
\* incremental updates, and ranks above zero were emitted
C1_Witness ==
    /\ pc = "idle"
    /\ col = columns
    /\ columns >= 3
    /\ \A c \in 0..(columns - 1) : get_value(row, c) # bin_nodata
    /\ \E c \in 1..(columns - 1) :
          data[c] > 0 /\ get_value(row, c) # get_value(row, c - 1)
    /\ midpoint_x = 1

\* C2: the output written for a cell whose centre is nodata is nodata.
C2_NodataPropagates ==
    \A c \in 0..(col - 1) :
        get_value(row, c) = bin_nodata => data[c] = nodata

----------------------------------------------------------------------------
(* SpecRamp: the stage B worker on the binned grid of a raster whose       *)
(* values increase strictly with the column index and are constant along   *)
(* each column, under a k x k kernel.  The declared minimum and maximum    *)
(* are those of the raster.                                                *)

RampRows == 5

RampCols == 5

RampVals == { 0, 5, 10, 1000, 2000, 3000, 4000, 5000, 6000 }

Ramps ==
    { f \in [0..(RampCols - 1) -> RampVals] :
        \A c \in 1..(RampCols - 1) : f[c - 1] < f[c] }

InitRamp ==
    /\ IdleTool
    /\ rows = RampRows
    /\ columns = RampCols
    /\ \E f \in Ramps :
          /\ input = [r \in 0..(RampRows - 1) |-> f]
          /\ minimum = f[0]
          /\ maximum = f[RampCols - 1]
    /\ min_bin = MinBin(minimum)
    /\ num_bins = NumBins(minimum, maximum)
    /\ binned_data =
          [r \in 0..(RampRows - 1) |->
              [c \in 0..(RampCols - 1) |-> FloorBin(input[r][c]) - min_bin]]
    /\ filter_size_x \in ScanKernels
    /\ filter_size_y = filter_size_x
    /\ arg_x = filter_size_x
    /\ arg_y = filter_size_y
    /\ midpoint_x = Midpoint(filter_size_x)
    /\ midpoint_y = Midpoint(filter_size_y)
    /\ row = 0
    /\ col = 0
    /\ histo = << >>
    /\ n = 0
    /\ n_less_than = 0
    /\ old_bin_val = bin_nodata
    /\ data = [c \in 0..(RampCols - 1) |-> nodata]
    /\ panicked = FALSE
    /\ IdleRun

SpecRamp == InitRamp /\ [][NextB]_vars

\* the window of (r, c) lies inside the grid
Untruncated(r, c) ==
    /\ r - midpoint_y >= 0
    /\ r + midpoint_y < rows
    /\ c - midpoint_x >= 0
    /\ c + midpoint_x < columns

Fifty == 50 * ZScale

\* C7 as stated: on a ramp every cell with an untruncated window gets 50.
C7_RampIsFifty ==
    \A c \in 0..(col - 1) : Untruncated(row, c) => data[c] = Fifty

StrictBins ==
    \A c \in 1..(columns - 1) : get_value(0, c - 1) < get_value(0, c)

\* C7 amended: on a ramp whose bins increase strictly with the column
\* index, every cell with an untruncated k x k window gets
\* 100 * (k - 1) / (2 * k).
C7_RampRank ==
    StrictBins =>
        \A c \in 0..(col - 1) :
            Untruncated(row, c) =>
                data[c] = (100 * ZScale * (filter_size_x - 1))
                              \div (2 * filter_size_x)

C7_Witness ==
    /\ StrictBins
    /\ filter_size_x = 5
    /\ col = columns
    /\ Untruncated(row, 2)
    /\ data[2] = 40 * ZScale

IsScenarioGrid ==
    /\ rows >= 5
    /\ columns >= 5
    /\ filter_size_x = 3
    /\ filter_size_y = 3
    /\ \A r \in 0..(rows - 1) : \A c \in 0..4 :
          input[r][c] = (c + 1) * ZScale
    /\ minimum = ZScale

\* C8 as stated: 3x3 on five rows of [1,2,3,4,5] gives 25, 50, 75 at
\* columns 1, 2, 3 of an interior row.
C8_Scenario255075 ==
    (IsScenarioGrid /\ row \in 1..(rows - 2) /\ col >= 4) =>
        /\ data[1] = 25 * ZScale
        /\ data[2] = 50 * ZScale
        /\ data[3] = 75 * ZScale

\* C8 amended: the output at columns 1, 2 and 3 of an interior row is
\* 100 * 3 / 9 at each of them.
C8_ScenarioThirds ==
    (IsScenarioGrid /\ row \in 1..(rows - 2) /\ col >= 4) =>
        \A c \in 1..3 : data[c] = (100 * ZScale * 3) \div 9

C8_Witness ==
    /\ IsScenarioGrid
    /\ row = 2
    /\ col >= 4
    /\ data[1] = data[3]
    /\ data[2] > 33 * ZScale
    /\ data[2] < 34 * ZScale

----------------------------------------------------------------------------
(* SpecBin: the binning of a raster whose declared minimum and maximum     *)
(* bracket its values (run, lines 153-160 and 184-193).                    *)

BinRows == 1

BinCols == 2

BinZVals == { -15, -10, -5, 0, 5, 10 }

Bracketed(g, mn, mx) ==
    /\ mn <= mx
    /\ \A r \in DOMAIN g : \A c \in DOMAIN g[r] :
          g[r][c] # nodata => (mn <= g[r][c] /\ g[r][c] <= mx)

InitBin ==
    /\ IdleTool
    /\ rows = BinRows
    /\ columns = BinCols
    /\ input \in [0..(BinRows - 1) ->
                    [0..(BinCols - 1) -> BinZVals \cup {nodata}]]
    /\ minimum \in BinZVals
    /\ maximum \in BinZVals
    /\ Bracketed(input, minimum, maximum)
    /\ min_bin = 0
    /\ num_bins = 0
    /\ binned_data = << >>
    /\ arg_x = 3
    /\ arg_y = 3
    /\ filter_size_x = 3
    /\ filter_size_y = 3
    /\ midpoint_x = 1
    /\ midpoint_y = 1
    /\ IdleScan
    /\ num_procs = 1
    /\ pc = "start"
    /\ id = 0
    /\ ending_row = 0
    /\ workers = << >>
    /\ chan = << >>
    /\ output = << >>
    /\ received = 0
    /\ writes = << >>

\* lines 157-160
ComputeBins ==
    /\ pc = "start"
    /\ min_bin' = MinBin(minimum)
    /\ num_bins' = NumBins(minimum, maximum)
    /\ binned_data' =
          [r \in 0..(rows - 1) |-> [c \in 0..(columns - 1) |-> bin_nodata]]
    /\ pc' = "dispatch1"
    /\ UNCHANGED << toolVars, rasterVars, kernelVars, scanVars, num_procs, id,
                    ending_row, workers, chan, output, received, writes >>

\* lines 184-193 and 200: row `row` is binned and stored
BinRowStep ==
    /\ pc = "dispatch1"
    /\ row < rows
    /\ binned_data' = [binned_data EXCEPT ![row] = BinRow(row)]
    /\ row' = row + 1
    /\ UNCHANGED << toolVars, rasterVars, kernelVars, min_bin, num_bins, col, histo,
                    n, n_less_than, old_bin_val, data, panicked, runVars >>

NextBin == ComputeBins \/ BinRowStep

SpecBin == InitBin /\ [][NextBin]_vars

\* C9: a nodata cell gets the sentinel; any other cell gets a bin b with
\* 0 <= b < B, B = floor(max*10^d) - min_bin + 1, and
\* floor(z*10^d) = b + min_bin; b is never the sentinel.
C9_BinsInRange ==
    pc = "dispatch1" =>
        \A r \in 0..(row - 1) : \A c \in 0..(columns - 1) :
            LET z == input[r][c]
                b == binned_data[r][c]
            IN  IF z = nodata THEN b = bin_nodata
                ELSE /\ 0 <= b
                     /\ b < (maximum * 100) \div ZScale - min_bin + 1
                     /\ b < num_bins
                     /\ (z * 100) \div ZScale = b + min_bin
                     /\ b # bin_nodata

C9_Witness ==
    /\ pc = "dispatch1"
    /\ row = rows
    /\ input[0][0] = nodata
    /\ binned_data[0][0] = bin_nodata
    /\ input[0][1] = -5
    /\ minimum = -15
    /\ binned_data[0][1] = 1
    /\ num_bins = 3

----------------------------------------------------------------------------
(* SpecFlat: the stage B worker on the binned grid of a raster whose cells *)
(* all hold the same value, for every grid size up to FlatRows x FlatCols  *)
(* and every declared range around the value.                              *)

FlatRows == 5

FlatCols == 5

InitFlat ==
    /\ IdleTool
    /\ rows \in 1..FlatRows
    /\ columns \in 1..FlatCols
    /\ \E z \in BinZVals :
          input = [r \in 0..(rows - 1) |-> [c \in 0..(columns - 1) |-> z]]
    /\ minimum \in BinZVals
    /\ maximum \in BinZVals
    /\ Bracketed(input, minimum, maximum)
    /\ min_bin = MinBin(minimum)
    /\ num_bins = NumBins(minimum, maximum)
    /\ binned_data = [r \in 0..(rows - 1) |-> BinRow(r)]
    /\ filter_size_x \in ScanKernels
    /\ filter_size_y \in ScanKernels
    /\ arg_x = filter_size_x
    /\ arg_y = filter_size_y
    /\ midpoint_x = Midpoint(filter_size_x)
    /\ midpoint_y = Midpoint(filter_size_y)
    /\ row = 0
    /\ col = 0
    /\ histo = << >>
    /\ n = 0
    /\ n_less_than = 0
    /\ old_bin_val = bin_nodata
    /\ data = [c \in 0..(columns - 1) |-> nodata]
    /\ panicked = FALSE
    /\ IdleRun

SpecFlat == InitFlat /\ [][NextB]_vars

\* C6: on a grid whose cells all hold the same valid value every output
\* cell is 0, whatever the kernel, truncated windows included.
C6_FlatIsZero ==
    (\A r \in 0..(rows - 1) : \A c \in 0..(columns - 1) :
        /\ binned_data[r][c] # bin_nodata
        /\ binned_data[r][c] = binned_data[0][0])
    => /\ ~panicked
       /\ \A c \in 0..(col - 1) : data[c] = 0

\* a 5 x 5 flat grid scanned under a 3 x 3 kernel up to the end of a row
\* whose first and last windows are truncated and whose others are not
C6_Witness ==
    /\ rows = 5
    /\ columns = 5
    /\ filter_size_x = 3
    /\ filter_size_y = 3
    /\ row = 2
    /\ col = columns
    /\ binned_data[0][0] > 0
    /\ n = 6
    /\ \A c \in 0..(columns - 1) : data[c] = 0

----------------------------------------------------------------------------
(* SpecKernel: the normalisation of the requested filter sizes (run,       *)
(* lines 115-128).                                                         *)

InitKernel ==
    /\ IdleTool
    /\ arg_x \in 0..MaxFilter
    /\ arg_y \in 0..MaxFilter
    /\ filter_size_x = arg_x
    /\ filter_size_y = arg_y
    /\ midpoint_x = 0
    /\ midpoint_y = 0
    /\ rows = 0
    /\ columns = 0
    /\ input = << >>
    /\ minimum = 0
    /\ maximum = 0
    /\ min_bin = 0
    /\ num_bins = 0
    /\ binned_data = << >>
    /\ IdleScan
    /\ num_procs = 1
    /\ pc = "args"
    /\ id = 0
    /\ ending_row = 0
    /\ workers = << >>
    /\ chan = << >>
    /\ output = << >>
    /\ received = 0
    /\ writes = << >>

\* lines 115-128
NormalizeFilter ==
    /\ pc = "args"
    /\ filter_size_x' = NormalizeSize(filter_size_x)
    /\ filter_size_y' = NormalizeSize(filter_size_y)
    /\ midpoint_x' = Midpoint(filter_size_x')
    /\ midpoint_y' = Midpoint(filter_size_y')
    /\ pc' = "normalized"
    /\ UNCHANGED << toolVars, rasterVars, arg_x, arg_y, binVars, scanVars, num_procs,
                    id, ending_row, workers, chan, output, received, writes >>

NextKernel == NormalizeFilter

SpecKernel == InitKernel /\ [][NextKernel]_vars

Normalized(s, size, mid) ==
    /\ s < 3 => size = 3
    /\ (s >= 3 /\ s % 2 = 0) => size = s + 1
    /\ (s >= 3 /\ s % 2 = 1) => size = s
    /\ size % 2 = 1
    /\ size >= 3
    /\ 2 * mid = size - 1

\* C10: the size used is 3 below 3, else the request rounded up by one when
\* even; it is odd and at least 3, and the midpoint is (size - 1) / 2.
C10_KernelNormalized ==
    pc = "normalized" =>
        /\ Normalized(arg_x, filter_size_x, midpoint_x)
        /\ Normalized(arg_y, filter_size_y, midpoint_y)

C10_Witness ==
    /\ pc = "normalized"
    /\ arg_x = 4
    /\ filter_size_x = 5
    /\ midpoint_x = 2
    /\ arg_y = 1
    /\ filter_size_y = 3
    /\ midpoint_y = 1

----------------------------------------------------------------------------
(* Spec: a whole run.  The main thread computes the bins, spawns the       *)
(* binning workers block by block, assembles the binned grid from the      *)
(* channel, then does the same for the percentile pass and writes the      *)
(* output.  A worker computes one row per step and sends it.               *)

MaxRows == 3

MaxProcs == 3

RunCols == 2

RunVals == { 0, 10 }

\* The dispatch loop of a run that terminates spawns at most `rows` workers.
\* id counts past that only when row_block_size is 0, where id *
\* row_block_size is 0 whatever id is: the model stops counting at MaxSpawn.
MaxSpawn == MaxRows + 1

\* the threads that can exist at once
MaxThreads == 2 * MaxSpawn

\* let row_block_size = rows / num_procs
row_block_size == rows \div num_procs

InitRun ==
    /\ IdleTool
    /\ rows \in 0..MaxRows
    /\ columns = RunCols
    /\ num_procs \in 1..MaxProcs
    /\ input \in [0..(rows - 1) -> [0..(RunCols - 1) -> RunVals]]
    /\ minimum = 0
    /\ maximum \in RunVals
    /\ arg_x = 3
    /\ arg_y = 3
    /\ filter_size_x = 3
    /\ filter_size_y = 3
    /\ midpoint_x = 1
    /\ midpoint_y = 1
    /\ min_bin = 0
    /\ num_bins = 0
    /\ binned_data = << >>
    /\ IdleScan
    /\ pc = "start"
    /\ id = 0
    /\ ending_row = 0
    /\ workers = << >>
    /\ chan = << >>
    /\ output = << >>
    /\ received = 0
    /\ writes = [p \in 1..2 |-> [r \in 0..(rows - 1) |-> 0]]

mainVars == << pc, id, ending_row, received >>

\* starting_row = id * row_block_size
BlockStart == id * row_block_size

\* ending_row = starting_row + row_block_size, clamped to rows
BlockEnd == Min(BlockStart + row_block_size, rows)

NewWorker(pass) ==
    [pass |-> pass, starting_row |-> BlockStart, ending_row |-> BlockEnd,
     row |-> BlockStart, st |-> NoLocals, status |-> "running"]

\* lines 169-196: one iteration of the binning dispatch loop
SpawnBinWorker ==
    /\ pc = "dispatch1"
    /\ ending_row < rows
    /\ Len(workers) < MaxThreads
    /\ ending_row' = BlockEnd
    /\ id' = Min(id + 1, MaxSpawn)
    /\ workers' = Append(workers, NewWorker(1))
    /\ UNCHANGED << toolVars, rasterVars, kernelVars, binVars, scanVars, num_procs,
                    pc, chan, output, received, writes >>

\* line 169: the loop condition fails
BinDispatchDone ==
    /\ pc = "dispatch1"
    /\ ~(ending_row < rows)
    /\ pc' = "recv1"
    /\ UNCHANGED << toolVars, rasterVars, kernelVars, binVars, scanVars, num_procs,
                    id, ending_row, workers, chan, output, received, writes >>

Running(w) ==
    /\ w \in DOMAIN workers
    /\ workers[w].status = "running"
    /\ workers[w].row < workers[w].ending_row

BinWorkerStepMutant(w) ==
    /\ Running(w)
    /\ workers[w].pass = 1
    /\ binned_data' = [binned_data EXCEPT ![workers[w].row] = BinRow(workers[w].row)]
    /\ chan' = Append(chan, << workers[w].row, BinRow(workers[w].row) >>)
    /\ workers' = [workers EXCEPT ![w].row = @ + 1]
    /\ UNCHANGED << toolVars, rasterVars, kernelVars, min_bin, num_bins, scanVars,
                    num_procs, mainVars, output, writes >>

\* lines 184-194: a binning worker bins its next row and sends it
BinWorkerStep(w) ==
    /\ Running(w)
    /\ workers[w].pass = 1
    /\ chan' = Append(chan, << workers[w].row, BinRow(workers[w].row) >>)
    /\ workers' = [workers EXCEPT ![w].row = @ + 1]
    /\ UNCHANGED << toolVars, rasterVars, kernelVars, binVars, scanVars, num_procs,
                    mainVars, output, writes >>

\* lines 184 and 234: the block of the thread is empty, its row loop has no
\* iteration and the thread returns
WorkerReturn(w) ==
    /\ w \in DOMAIN workers
    /\ workers[w].status = "running"
    /\ workers[w].starting_row >= workers[w].ending_row
    /\ workers' = [k \in 1..(Len(workers) - 1) |->
                      IF k < w THEN workers[k] ELSE workers[k + 1]]
    /\ UNCHANGED << toolVars, rasterVars, kernelVars, binVars, scanVars, num_procs,
                    mainVars, chan, output, writes >>

\* the Sender handles alive: `tx` of the main thread, which stays in scope
\* until run returns, and the clone `tx1` of every thread still running
SendersAlive ==
    1 + Cardinality({ w \in DOMAIN workers :
                        \/ Running(w)
                        \/ /\ workers[w].status = "running"
                           /\ workers[w].starting_row >= workers[w].ending_row })

\* lines 198-200: rx.recv().unwrap() and set_row_data
RecvBinned ==
    /\ pc = "recv1"
    /\ received < rows
    /\ chan # << >> \/ SendersAlive = 0
    /\ IF chan # << >>
       THEN /\ binned_data' = [binned_data EXCEPT ![Head(chan)[1]] = Head(chan)[2]]
            /\ writes' = [writes EXCEPT ![1][Head(chan)[1]] = @ + 1]
            /\ chan' = Tail(chan)
            /\ received' = received + 1
            /\ pc' = pc
       ELSE /\ pc' = "failed"
            /\ UNCHANGED << binned_data, writes, chan, received >>
    /\ UNCHANGED << toolVars, rasterVars, kernelVars, min_bin, num_bins, scanVars,
                    num_procs, id, ending_row, workers, output >>

PublishMutant ==
    /\ pc = "recv1"
    /\ output' = [r \in 0..(rows - 1) |-> [c \in 0..(columns - 1) |-> nodata]]
    /\ ending_row' = 0
    /\ id' = 0
    /\ chan' = << >>
    /\ received' = 0
    /\ pc' = "dispatch2"
    /\ UNCHANGED << toolVars, rasterVars, kernelVars, binVars, scanVars, num_procs,
                    workers, writes >>

\* lines 210-215: the binned grid is wrapped in an Arc, the output raster is
\* created and the dispatch state reset
Publish ==
    /\ pc = "recv1"
    /\ received = rows
    /\ output' = [r \in 0..(rows - 1) |-> [c \in 0..(columns - 1) |-> nodata]]
    /\ ending_row' = 0
    /\ id' = 0
    /\ chan' = << >>
    /\ received' = 0
    /\ pc' = "dispatch2"
    /\ UNCHANGED << toolVars, rasterVars, kernelVars, binVars, scanVars, num_procs,
                    workers, writes >>

\* lines 216-318: one iteration of the percentile dispatch loop
SpawnPercentileWorker ==
    /\ pc = "dispatch2"
    /\ ending_row < rows
    /\ Len(workers) < MaxThreads
    /\ ending_row' = BlockEnd
    /\ id' = Min(id + 1, MaxSpawn)
    /\ workers' = Append(workers, NewWorker(2))
    /\ UNCHANGED << toolVars, rasterVars, kernelVars, binVars, scanVars, num_procs,
                    pc, chan, output, received, writes >>

\* line 216: the loop condition fails
PercentileDispatchDone ==
    /\ pc = "dispatch2"
    /\ ~(ending_row < rows)
    /\ pc' = "recv2"
    /\ UNCHANGED << toolVars, rasterVars, kernelVars, binVars, scanVars, num_procs,
                    id, ending_row, workers, chan, output, received, writes >>

\* lines 234-315: a percentile worker scans its next row and sends it; an
\* index outside the histogram panics the thread before the send
PercentileWorkerStep(w) ==
    /\ Running(w)
    /\ workers[w].pass = 2
    /\ LET st == ScanRow(workers[w].st, workers[w].row) IN
         IF st.panicked
         THEN /\ workers' = [workers EXCEPT ![w].status = "panicked",
                                             ![w].st = st]
              /\ chan' = chan
         ELSE /\ workers' = [workers EXCEPT ![w].row = @ + 1, ![w].st = st]
              /\ chan' = Append(chan, << workers[w].row, st.data >>)
    /\ UNCHANGED << toolVars, rasterVars, kernelVars, binVars, scanVars, num_procs,
                    mainVars, output, writes >>

\* lines 320-322: rx.recv().unwrap() and set_row_data
RecvOutput ==
    /\ pc = "recv2"
    /\ received < rows
    /\ chan # << >> \/ SendersAlive = 0
    /\ IF chan # << >>
       THEN /\ output' = [output EXCEPT ![Head(chan)[1]] = Head(chan)[2]]
            /\ writes' = [writes EXCEPT ![2][Head(chan)[1]] = @ + 1]
            /\ chan' = Tail(chan)
            /\ received' = received + 1
            /\ pc' = pc
       ELSE /\ pc' = "failed"
            /\ UNCHANGED << output, writes, chan, received >>
    /\ UNCHANGED << toolVars, rasterVars, kernelVars, binVars, scanVars, num_procs,
                    id, ending_row, workers >>

FinishAssemblyMutant ==
    /\ pc = "recv2"
    /\ pc' = "write"
    /\ UNCHANGED << toolVars, rasterVars, kernelVars, binVars, scanVars, num_procs,
                    id, ending_row, workers, chan, output, received, writes >>

\* lines 320-323: the assembly loop has gone through its `rows` iterations
FinishAssembly ==
    /\ pc = "recv2"
    /\ received = rows
    /\ pc' = "write"
    /\ UNCHANGED << toolVars, rasterVars, kernelVars, binVars, scanVars, num_procs,
                    id, ending_row, workers, chan, output, received, writes >>

\* lines 344-351: output.write() and Ok(())
WriteOutput ==
    /\ pc = "write"
    /\ pc' = "done"
    /\ UNCHANGED << toolVars, rasterVars, kernelVars, binVars, scanVars, num_procs,
                    id, ending_row, workers, chan, output, received, writes >>

WorkerIds == 1..MaxThreads

Next ==
    \/ ComputeBins
    \/ SpawnBinWorker
    \/ BinDispatchDone
    \/ \E w \in WorkerIds : BinWorkerStep(w)
    \/ \E w \in WorkerIds : WorkerReturn(w)
    \/ RecvBinned
    \/ Publish
    \/ SpawnPercentileWorker
    \/ PercentileDispatchDone
    \/ \E w \in WorkerIds : PercentileWorkerStep(w)
    \/ RecvOutput
    \/ FinishAssembly
    \/ WriteOutput

Spec == InitRun /\ [][Next]_vars

\* the runs on a flat raster within its declared range, where no worker
\* can fail
InitFair ==
    /\ InitRun
    /\ \A r \in DOMAIN input : \A c \in DOMAIN input[r] :
          input[r][c] = minimum

\* The operating system schedules every thread that can run.  A step of a
\* thread, once enabled, stays enabled until the thread takes it, so some
\* step is taken for as long as one is enabled.
FairSpec == InitFair /\ [][Next]_vars /\ WF_vars(Next)

----------------------------------------------------------------------------
(* Dispatch and assembly properties.                                       *)

\* the workers of pass p that have computed and sent row r
SentBy(p, r) ==
    { w \in DOMAIN workers :
        /\ workers[w].pass = p
        /\ workers[w].starting_row <= r
        /\ r < workers[w].row }

Assembled(p) ==
    \A r \in 0..(rows - 1) :
        Cardinality(SentBy(p, r)) = 1 /\ writes[p][r] = 1

NeverTwice ==
    \A p \in 1..2 : \A r \in 0..(rows - 1) :
        Cardinality(SentBy(p, r)) <= 1 /\ writes[p][r] <= 1

\* C3: for every row count and worker count, in both passes every row is
\* computed by exactly one worker, sent once and written once by the main
\* thread, which consumes exactly `rows` messages: no row is written twice
\* and none is skipped, so the run gets to the end of both assemblies with
\* every row in place.
C3_EveryRowOnce ==
    /\ []NeverTwice
    /\ <>(pc = "done" /\ Assembled(1) /\ Assembled(2))

\* C4: when a worker has panicked the failure reaches the main thread: the
\* run does not come to rest, with no thread able to take a step, unless
\* the main thread has ended with a failure.
C4_FailureReported ==
    ((\E w \in DOMAIN workers : workers[w].status = "panicked")
        /\ ~ENABLED Next)
    => pc = "failed"

\* C5: the assembled grids are functions of the input alone: row r of the
\* binned grid is the binning of input row r, and row r of the output is
\* the scan of row r of the binned grid from freshly reset locals, whatever
\* the worker count, the blocks and the arrival order of the messages.
C5_Deterministic ==
    pc \in {"write", "done"} =>
        \A r \in 0..(rows - 1) :
            /\ binned_data[r] = BinRow(r)
            /\ output[r] = ScanFrom([NoLocals EXCEPT
                                !.data = [c \in 0..(columns - 1) |-> nodata]],
                                    r, 0).data

C5_Witness ==
    /\ pc = "done"
    /\ rows = 3
    /\ num_procs = 2
    /\ Len(workers) = 6
    /\ \E r \in 0..(rows - 1) : \E c \in 0..(columns - 1) : output[r][c] > 0

----------------------------------------------------------------------------
(* The flightline-overlap tool (lidar_flightline_overlap.rs, run).  A      *)
(* coordinate x (an f64 in the program) is represented by the integer      *)
(* x * LScale (halves of a map unit), a GPS time t by the integer          *)
(* t * TScale (tenths of a second).  The variable `input` holds the LAS    *)
(* file: a header and the point records.  A cell value is the flightline   *)
(* count itself, or las_nodata.                                            *)

LScale == 1 + 1

TScale == 2 * 5

\* let nodata = -32768.0f64
las_nodata == -32768

\* let time_threshold = 15f64
time_threshold == 15 * TScale

\* let half_res_sqrd = grid_res / 2.0 * grid_res / 2.0
half_res_sqrd == (grid_res * grid_res) \div 4

CeilDivMutant(a, b) == IF a < 0 THEN 0 ELSE a \div b + 1

\* (a / b).ceil() as usize
CeilDiv(a, b) == IF a <= 0 THEN 0 ELSE -((-a) \div b)

\* the variant that input.get_record returns for a file of this format
RecordKind(point_format) ==
    IF point_format = 1 THEN "PointRecord1"
    ELSE IF point_format = 3 THEN "PointRecord3"
    ELSE "other"

\* the bucket of a coordinate in the search index
Bucket(v) == v \div grid_res

Near(a, b) == a - b <= 1 /\ b - a <= 1

\* frs.search(x, y): the payloads of the entries of the nine buckets about
\* the query that lie within the radius
search(x, y) ==
    { e.value : e \in
        { f \in frs :
            /\ Near(Bucket(f.x), Bucket(x))
            /\ Near(Bucket(f.y), Bucket(y))
            /\ (f.x - x) * (f.x - x) + (f.y - y) * (f.y - y)
                   <= grid_res * grid_res } }

\* x = west + col as f64 * grid_res + 0.5
CellX(c) == west + c * grid_res + (LScale \div 2)

\* y = north - row as f64 * grid_res - 0.5
CellY(r) == north - r * grid_res - (LScale \div 2)

InCellMutant(p, x, y) ==
    /\ (p.x - x) * (p.x - x) < half_res_sqrd
    /\ (p.y - y) * (p.y - y) < half_res_sqrd

\* line 187: the point falls within the grid cell
InCell(p, x, y) ==
    /\ (p.x - x) * (p.x - x) <= half_res_sqrd
    /\ (p.y - y) * (p.y - y) <= half_res_sqrd

\* lines 181-190: the indices whose times are pushed
Kept(x, y) == { k \in search(x, y) : InCell(input.records[k + 1], x, y) }

Earliest(S) ==
    CHOOSE k \in S : \A m \in S :
        \/ gps_times[k] < gps_times[m]
        \/ (gps_times[k] = gps_times[m] /\ k <= m)

RECURSIVE SortTimes(_)
\* times.sort_by(|a, b| a.partial_cmp(&b).unwrap())
SortTimes(S) ==
    IF S = {} THEN << >>
    ELSE << gps_times[Earliest(S)] >> \o SortTimes(S \ {Earliest(S)})

NewFlightlineMutant(a, b) == b - a >= time_threshold

\* times[j] - times[j-1] > time_threshold
NewFlightline(a, b) == b - a > time_threshold

\* lines 193-198
NumFlightlines(times) ==
    1 + Cardinality({ j \in 2..Len(times) :
                        NewFlightline(times[j - 1], times[j]) })

\* lines 177-205: the value written to the cell
CellValue(r, c) ==
    LET times == SortTimes(Kept(CellX(c), CellY(r)))
    IN  IF times = << >> THEN las_nodata ELSE NumFlightlines(times)

----------------------------------------------------------------------------
(* SpecLas: the runs of the flightline-overlap tool on small point clouds. *)

MaxPoints == 3      \* points of a cloud drawn freely
MaxBase   == 2      \* points of a cloud that is replicated with a shift

LasXs == {0, 2, 4}
LasYs == {0, 2}
LasTimes == {0, 100, 151, 301}
LasShifts == {151, 1000}
LasRes == {2, 4}
PointFormats == 0..5

PointVals == [x : LasXs, y : LasYs, gps_time : LasTimes]

\* the order in which a cloud lists its points: by place, later times first
Listed(p, q) ==
    \/ p.x < q.x
    \/ p.x = q.x /\ p.y < q.y
    \/ p.x = q.x /\ p.y = q.y /\ p.gps_time >= q.gps_time

Clouds(len) ==
    UNION { { s \in [1..m -> PointVals] :
                \A k \in 1..(m - 1) : Listed(s[k], s[k + 1]) } : m \in 1..len }

Shifted(s, d) == [k \in DOMAIN s |-> [s[k] EXCEPT !.gps_time = @ + d]]

\* four returns at (0.5, 0.5) with times 0, 0.1, 100 and 100.1
ScenarioCloud ==
    [k \in 1..4 |->
        [x |-> LScale \div 2, y |-> LScale \div 2,
         gps_time |-> IF k = 1 THEN 0
                      ELSE IF k = 2 THEN TScale \div 10
                      ELSE IF k = 3 THEN 100 * TScale
                      ELSE 100 * TScale + TScale \div 10]]

SetMin(S) == CHOOSE v \in S : \A u \in S : v <= u

SetMax(S) == CHOOSE v \in S : \A u \in S : v >= u

\* the bounds of the points themselves
CloudBounds(s) ==
    [min_x |-> SetMin({ s[k].x : k \in DOMAIN s }),
     max_x |-> SetMax({ s[k].x : k \in DOMAIN s }),
     min_y |-> SetMin({ s[k].y : k \in DOMAIN s }),
     max_y |-> SetMax({ s[k].y : k \in DOMAIN s })]

\* a header that declares the box of the survey rather than of the points
SurveyBounds(s) ==
    [min_x |-> 0,
     max_x |-> grid_res * CeilDiv(Max(CloudBounds(s).max_x, 1), grid_res),
     min_y |-> 0,
     max_y |-> grid_res * CeilDiv(Max(CloudBounds(s).max_y, 1), grid_res)]

LasFile(s, fmt, b) ==
    [header  |-> [point_format |-> fmt, number_of_points |-> Len(s),
                  min_x |-> b.min_x, max_x |-> b.max_x,
                  min_y |-> b.min_y, max_y |-> b.max_y],
     records |-> s]

InitLas ==
    /\ grid_res \in LasRes
    /\ \E s \in Clouds(MaxPoints)
                \cup { b \o Shifted(b, d) : b \in Clouds(MaxBase), d \in LasShifts }
                \cup { ScenarioCloud } :
       \E fmt \in (IF Len(s) = 1 THEN PointFormats ELSE {1}) :
       \E b \in { CloudBounds(s), SurveyBounds(s) } :
           input = LasFile(s, fmt, b)
    /\ pc = "open"
    /\ args = << >>
    /\ i = 0
    /\ frs = {}
    /\ gps_times = << >>
    /\ west = 0
    /\ north = 0
    /\ rows = 0
    /\ columns = 0
    /\ minimum = 0
    /\ maximum = 0
    /\ arg_x = 0
    /\ arg_y = 0
    /\ filter_size_x = 0
    /\ filter_size_y = 0
    /\ midpoint_x = 0
    /\ midpoint_y = 0
    /\ min_bin = 0
    /\ num_bins = 0
    /\ binned_data = << >>
    /\ IdleScan
    /\ num_procs = 1
    /\ id = 0
    /\ ending_row = 0
    /\ workers = << >>
    /\ chan = << >>
    /\ output = << >>
    /\ received = 0
    /\ writes = << >>

lasIdle == << minimum, maximum, kernelVars, binVars, histo, n, n_less_than,
              old_bin_val, data, panicked, num_procs, id, ending_row,
              workers, chan, received, writes, args, grid_res, input >>

\* lines 100-111: the point format check, then the empty index
CheckPointFormat ==
    /\ pc = "open"
    /\ IF input.header.point_format = 0 \/ input.header.point_format = 2
       THEN /\ pc' = "panicked"
            /\ UNCHANGED gps_times
       ELSE /\ pc' = "points"
            /\ gps_times' = [k \in 0..(input.header.number_of_points - 1) |-> -1]
    /\ UNCHANGED << lasIdle, i, frs, west, north, rows, columns, row, col,
                    output >>

\* lines 115-133: one iteration of `for i in 0..n_points`
ReadPoint ==
    /\ pc = "points"
    /\ i < input.header.number_of_points
    /\ IF RecordKind(input.header.point_format) = "other"
       THEN /\ pc' = "panicked"
            /\ UNCHANGED << i, frs, gps_times >>
       ELSE /\ frs' = frs \cup { [x |-> input.records[i + 1].x,
                                  y |-> input.records[i + 1].y,
                                  value |-> i] }
            /\ gps_times' = [gps_times EXCEPT ![i] = input.records[i + 1].gps_time]
            /\ i' = i + 1
            /\ pc' = pc
    /\ UNCHANGED << lasIdle, west, north, rows, columns, row, col, output >>

\* lines 143-170: the grid layout and the output raster
Layout ==
    /\ pc = "points"
    /\ i = input.header.number_of_points
    /\ west' = input.header.min_x
    /\ north' = input.header.max_y
    /\ rows' = CeilDiv(north' - input.header.min_y, grid_res)
    /\ columns' = CeilDiv(input.header.max_x - west', grid_res)
    /\ output' = [r \in 0..(rows' - 1) |-> [c \in 0..(columns' - 1) |-> las_nodata]]
    /\ row' = 0
    /\ col' = 0
    /\ pc' = "cells"
    /\ UNCHANGED << lasIdle, i, frs, gps_times >>

\* lines 176-206: one iteration of `for col in 0..columns`
CellStep ==
    /\ pc = "cells"
    /\ row < rows
    /\ col < columns
    /\ output' = [output EXCEPT ![row][col] = CellValue(row, col)]
    /\ IF col + 1 < columns
       THEN row' = row /\ col' = col + 1
       ELSE row' = row + 1 /\ col' = 0
    /\ UNCHANGED << lasIdle, pc, i, frs, gps_times, west, north, rows,
                    columns >>

\* lines 216-228: output.write() and Ok(())
WriteRaster ==
    /\ pc = "cells"
    /\ row >= rows \/ columns = 0
    /\ pc' = "done"
    /\ UNCHANGED << lasIdle, i, frs, gps_times, west, north, rows, columns,
                    row, col, output >>

NextLas ==
    \/ CheckPointFormat
    \/ ReadPoint
    \/ Layout
    \/ CellStep
    \/ WriteRaster

SpecLas == InitLas /\ [][NextLas]_vars

----------------------------------------------------------------------------
(* Properties of the flightline-overlap tool.                              *)

\* the cells of the output that the cell loop has written
Written ==
    IF pc \in {"cells", "done"}
    THEN { rc \in (0..(rows - 1)) \X (0..(columns - 1)) :
             rc[1] < row \/ (rc[1] = row /\ rc[2] < col) }
    ELSE {}

\* the points of the cloud inside the square footprint of cell (r, c)
Footprint(r, c) ==
    { k \in 1..Len(input.records) :
        /\ 4 * (input.records[k].x - CellX(c)) * (input.records[k].x - CellX(c))
              <= grid_res * grid_res
        /\ 4 * (input.records[k].y - CellY(r)) * (input.records[k].y - CellY(r))
              <= grid_res * grid_res }

TimesIn(r, c) == { input.records[k].gps_time : k \in Footprint(r, c) }

\* the times of T that follow their predecessor in T by more than 15 s
Breaks(T) ==
    { t \in T : \E s \in T :
        /\ s < t
        /\ \A u \in T : ~(s < u /\ u < t)
        /\ t - s > 15 * TScale }

\* C11: every written cell holds nodata when no point of the cloud lies in
\* its square footprint about the cell centre, and otherwise 1 plus the
\* number of adjacent pairs of the sorted times of the points in the
\* footprint that are more than 15 s apart (a gap of exactly 15 s starts no
\* new flightline); no point of the footprint is lost by the index query.
C11_CellCount ==
    \A rc \in Written :
        output[rc[1]][rc[2]] =
            IF Footprint(rc[1], rc[2]) = {} THEN las_nodata
            ELSE 1 + Cardinality(Breaks(TimesIn(rc[1], rc[2])))

\* a finished run with an empty cell and a cell of two flightlines among
\* whose returns two are exactly 15 s apart
C11_Witness ==
    /\ pc = "done"
    /\ \E rc \in Written : output[rc[1]][rc[2]] = las_nodata
    /\ \E rc \in Written :
          /\ output[rc[1]][rc[2]] = 2
          /\ \E s, t \in TimesIn(rc[1], rc[2]) : t - s = 15 * TScale

CloudTimes == { input.records[k].gps_time : k \in 1..Len(input.records) }

Covered == { rc \in Written : Footprint(rc[1], rc[2]) # {} }

\* C13 as stated: when the sorted times of the whole cloud have no adjacent
\* pair more than 15 s apart, every written cell whose footprint holds a
\* point has the value 1.
C13_CloudFlightlineIsOne ==
    Breaks(CloudTimes) = {} =>
        \A rc \in Covered : output[rc[1]][rc[2]] = 1

\* C13, amended: every written cell whose footprint holds a point and in
\* which the sorted times of the points of the footprint have no adjacent
\* pair more than 15 s apart has the value 1.
C13_CellFlightlineIsOne ==
    \A rc \in Covered :
        Breaks(TimesIn(rc[1], rc[2])) = {} => output[rc[1]][rc[2]] = 1

\* a finished run on a cloud of one flightline with a cell of value 1 that
\* holds returns exactly 15 s apart, and earlier returns as well
C13_Witness ==
    /\ pc = "done"
    /\ Breaks(CloudTimes) = {}
    /\ \E rc \in Covered :
          /\ output[rc[1]][rc[2]] = 1
          /\ Cardinality(TimesIn(rc[1], rc[2])) = 3
          /\ \E s, t \in TimesIn(rc[1], rc[2]) : t - s = 15 * TScale

\* the first half of the records, when the cloud is that half listed twice
BaseIndices == 1..(Len(input.records) \div 2)

\* the second half of the cloud repeats the first with every time moved by d
IsReplica(d) ==
    /\ Len(input.records) = 2 * (Len(input.records) \div 2)
    /\ \A k \in BaseIndices :
          input.records[k + Len(input.records) \div 2] =
              [input.records[k] EXCEPT !.gps_time = @ + d]

ShiftOf ==
    input.records[1 + Len(input.records) \div 2].gps_time
        - input.records[1].gps_time

BaseTimes == { input.records[k].gps_time : k \in BaseIndices }

BaseTimesIn(r, c) ==
    { input.records[k].gps_time : k \in BaseIndices \cap Footprint(r, c) }

\* C12 as stated: when a cloud of one flightline is replicated with every
\* time shifted by one amount greater than 15 s, every written cell whose
\* footprint holds a point has the value 2.
C12_ShiftedCopyIsTwo ==
    (/\ IsReplica(ShiftOf)
     /\ ShiftOf > 15 * TScale
     /\ Breaks(BaseTimes) = {})
    => \A rc \in Covered : output[rc[1]][rc[2]] = 2

\* C12, amended: when a cloud is replicated with every time shifted by one
\* amount, every written cell in which the times of the original points of
\* the footprint have no adjacent pair more than 15 s apart, and whose
\* span the shift exceeds by more than 15 s, has the value 2.
C12_SeparatedCopyIsTwo ==
    IsReplica(ShiftOf) =>
        \A rc \in Covered :
            LET B == BaseTimesIn(rc[1], rc[2])
            IN  (/\ Breaks(B) = {}
                 /\ ShiftOf > 15 * TScale + (SetMax(B) - SetMin(B)))
                => output[rc[1]][rc[2]] = 2

\* a finished run on a replicated cloud with a cell of value 2 whose
\* original returns are 10 s apart
C12_Witness ==
    /\ pc = "done"
    /\ IsReplica(ShiftOf)
    /\ ShiftOf > 15 * TScale
    /\ \E rc \in Covered :
          /\ output[rc[1]][rc[2]] = 2
          /\ Cardinality(BaseTimesIn(rc[1], rc[2])) = 2

IsScenarioRun ==
    /\ input.records = ScenarioCloud
    /\ grid_res = LScale
    /\ pc = "done"

HeaderBounds ==
    [min_x |-> input.header.min_x, max_x |-> input.header.max_x,
     min_y |-> input.header.min_y, max_y |-> input.header.max_y]

\* C14 as stated: at resolution 1.0, for the four returns at (0.5, 0.5)
\* with times 0, 0.1, 100 and 100.1 and the grid laid out from the bounds
\* of the cloud, the output has a cell (0, 0) and its value is 2.
C14_ScenarioCellIsTwo ==
    (IsScenarioRun /\ HeaderBounds = CloudBounds(input.records))
    => (rows >= 1 /\ columns >= 1 /\ output[0][0] = 2)

\* C14, amended: for the same cloud and resolution, the grid laid out from
\* the bounds of the cloud has no row and no column, so no cell is written;
\* laid out from the header bounds (0, 0)-(1, 1) it has the one cell (0, 0)
\* and its value is 2.
C14_ScenarioGrid ==
    IsScenarioRun =>
        IF HeaderBounds = CloudBounds(input.records)
        THEN rows = 0 /\ columns = 0 /\ Written = {}
        ELSE /\ HeaderBounds = [min_x |-> 0, max_x |-> LScale,
                                min_y |-> 0, max_y |-> LScale]
             /\ rows = 1 /\ columns = 1 /\ output[0][0] = 2

C14_Witness ==
    /\ IsScenarioRun
    /\ HeaderBounds # CloudBounds(input.records)
    /\ Written = { << 0, 0 >> }
    /\ output[0][0] = 2

\* the run has ended by returning an error to its caller
ReturnedError == pc = "error"

\* C15: when the point format carries no GPS time, run does not go past the
\* reading of the points, ends by returning an error, and creates no output
\* raster.
C15_RejectedAsError ==
    (/\ RecordKind(input.header.point_format) = "other"
     /\ pc \notin {"open", "points"})
    => (ReturnedError /\ output = << >>)

----------------------------------------------------------------------------
(* SpecArgs: the argument loop of main (elev_percentile.rs, lines 23-99),  *)
(* followed by the normalisation of the sizes handed to run.  An argument  *)
(* is a flag with its value after an equals sign (keyval), a flag alone,   *)
(* or a bare value; the program name is left out.                          *)

MaxArgs == 3        \* arguments on the command line

\* let mut filter_size_x = 11usize
default_filter == 11

ArgVals == {5, 9}

SizeFlags == {"--filter", "--filterx", "--filtery"}

Arguments ==
    [flag : SizeFlags, keyval : {TRUE}, val : ArgVals]
        \cup [flag : SizeFlags \cup {"-v", "-h"}, keyval : {FALSE}, val : {0}]
        \cup [flag : {"value"}, keyval : {FALSE}, val : ArgVals]

InitArgs ==
    /\ args \in UNION { [1..m -> Arguments] : m \in 0..MaxArgs }
    /\ i = 1
    /\ filter_size_x = default_filter
    /\ filter_size_y = default_filter
    /\ pc = "main"
    /\ arg_x = 0
    /\ arg_y = 0
    /\ midpoint_x = 0
    /\ midpoint_y = 0
    /\ grid_res = 0
    /\ frs = {}
    /\ gps_times = << >>
    /\ west = 0
    /\ north = 0
    /\ rows = 0
    /\ columns = 0
    /\ input = << >>
    /\ minimum = 0
    /\ maximum = 0
    /\ min_bin = 0
    /\ num_bins = 0
    /\ binned_data = << >>
    /\ IdleScan
    /\ num_procs = 1
    /\ id = 0
    /\ ending_row = 0
    /\ workers = << >>
    /\ chan = << >>
    /\ output = << >>
    /\ received = 0
    /\ writes = << >>

argsIdle == << rasterVars, midpoint_x, midpoint_y, binVars, scanVars,
               num_procs, id, ending_row, workers, chan, output, received,
               writes, args, grid_res, frs, gps_times, west, north >>

\* the value of the flag at position k can be read: it follows the equals
\* sign, or it is the next argument and parses as a number
HasValue(k) ==
    \/ args[k].keyval
    \/ k + 1 <= Len(args) /\ args[k + 1].flag = "value"

\* vec[1].parse().unwrap() or args[i+1].parse().unwrap()
ValueOf(k) == IF args[k].keyval THEN args[k].val ELSE args[k + 1].val

\* line 28
NoArguments ==
    /\ pc = "main"
    /\ Len(args) = 0
    /\ pc' = "panicked"
    /\ UNCHANGED << argsIdle, i, kernelVars >>

\* lines 54-66: the flags that leave filter_size_x alone
KeepsWidth(flag) == flag \notin {"--filter", "--filterx"}

\* lines 54-72: the flags that leave filter_size_y alone
KeepsHeight(flag) == flag \notin {"--filter", "--filtery"}

\* lines 29-94: one iteration of `for i in 0..args.len()`
ParseArg ==
    /\ pc = "main"
    /\ Len(args) > 0
    /\ i <= Len(args)
    /\ IF args[i].flag \in SizeFlags
       THEN IF HasValue(i)
            THEN /\ filter_size_x' = IF KeepsWidth(args[i].flag)
                                     THEN filter_size_x ELSE ValueOf(i)
                 /\ filter_size_y' = IF KeepsHeight(args[i].flag)
                                     THEN filter_size_y ELSE ValueOf(i)
                 /\ i' = i + 1
                 /\ pc' = pc
            ELSE /\ pc' = "panicked"
                 /\ UNCHANGED << i, filter_size_x, filter_size_y >>
       ELSE IF args[i].flag = "-h"
            THEN /\ pc' = "returned"
                 /\ UNCHANGED << i, filter_size_x, filter_size_y >>
            ELSE /\ i' = i + 1
                 /\ pc' = pc
                 /\ UNCHANGED << filter_size_x, filter_size_y >>
    /\ UNCHANGED << argsIdle, arg_x, arg_y >>

\* lines 97-98: run(.., filter_size_x, filter_size_y, verbose)
CallRun ==
    /\ pc = "main"
    /\ Len(args) > 0
    /\ i > Len(args)
    /\ arg_x' = filter_size_x
    /\ arg_y' = filter_size_y
    /\ pc' = "args"
    /\ UNCHANGED << argsIdle, i, filter_size_x, filter_size_y >>

NextArgs ==
    \/ NoArguments
    \/ ParseArg
    \/ CallRun
    \/ NormalizeFilter

SpecArgs == InitArgs /\ [][NextArgs]_vars

\* the positions of the command line that hold --filter
FilterArgs == { k \in 1..Len(args) : args[k].flag = "--filter" }

\* C17: when the command line holds --filter (once), the kernel width and
\* height that run uses both equal its value, wherever --filterx and
\* --filtery stand.
C17_FilterWins ==
    (pc = "normalized" /\ Cardinality(FilterArgs) = 1)
    => \A k \in FilterArgs :
          filter_size_x = ValueOf(k) /\ filter_size_y = ValueOf(k)

----------------------------------------------------------------------------
(* Further properties of the percentile filter.                            *)

\* C16: the output raster is written only once the main thread has
\* received `rows` messages of the percentile pass and every row of the
\* output has been set; when a worker has failed, so that its rows are
\* never delivered, the write is not reached.
C16_NoPartialOutput ==
    /\ pc \in {"write", "done"} =>
          /\ received = rows
          /\ Assembled(2)
          /\ chan = << >>
    /\ (\E w \in DOMAIN workers : workers[w].status = "panicked") =>
          pc \notin {"write", "done"}

\* the raster of a run of three rows on two processors has been written
C16_Witness ==
    /\ pc = "done"
    /\ rows = 3
    /\ num_procs = 2
    /\ received = 3
    /\ \A r \in 0..2 : writes[2][r] = 1

RECURSIVE HistoBelow(_)
\* the number of window cells counted in the bins below b
HistoBelow(b) == IF b <= 0 THEN 0 ELSE histo[b - 1] + HistoBelow(b - 1)

\* a column of the current row has been processed and the histogram has
\* been initialized on this row
Initialized == col >= 1 /\ ~panicked /\ histo # << >>

\* C18 as stated: at every processed column of a row whose histogram has
\* been initialized, the slots of histo sum to n, the slots below the bin
\* of the column's centre cell sum to n_less_than, and no slot is negative.
C18_HistoAtEveryColumn ==
    Initialized =>
        /\ HistoBelow(num_bins) = n
        /\ HistoBelow(get_value(row, col - 1)) = n_less_than
        /\ \A v \in DOMAIN histo : histo[v] >= 0

\* C18, amended: at every processed column of a row whose histogram has
\* been initialized, the slots of histo sum to n and no slot is negative;
\* at the columns whose centre cell is valid the slots below the bin of the
\* centre sum to n_less_than (at a nodata centre the state of the last
\* valid centre is carried unchanged).
C18_HistoAtValidColumn ==
    Initialized =>
        /\ HistoBelow(num_bins) = n
        /\ \A v \in DOMAIN histo : histo[v] >= 0
        /\ get_value(row, col - 1) # bin_nodata =>
              HistoBelow(get_value(row, col - 1)) = n_less_than

\* the last column of a row, reached by an incremental update from a
\* centre of another bin, with cells below the centre in the window
C18_Witness ==
    /\ Initialized
    /\ col = columns
    /\ get_value(row, col - 1) # bin_nodata
    /\ get_value(row, col - 2) # bin_nodata
    /\ get_value(row, col - 2) # get_value(row, col - 1)
    /\ n_less_than > 0
    /\ n > n_less_than

\* C19: for rows >= 1, when the dispatch loop of the binning pass has
\* exited it has spawned exactly num_procs workers, worker k over the block
\* of ceil(rows / num_procs) rows that starts at k times that size, the
\* last one cut at `rows`.
C19_BlocksOfCeil ==
    (pc = "recv1" /\ rows >= 1) =>
        /\ Len(workers) = num_procs
        /\ \A k \in DOMAIN workers :
              /\ workers[k].starting_row
                    = (k - 1) * CeilDiv(rows, num_procs)
              /\ workers[k].ending_row
                    = Min(k * CeilDiv(rows, num_procs), rows)

\* C20: with no worker failure and every enabled thread scheduled, the run
\* gets through both dispatch loops and both assembly loops and ends.
C20_RunEnds == <>(pc = "done" /\ received = rows)

----------------------------------------------------------------------------
(* Ordering of the two passes and ownership of the grids.                  *)

\* every row of the binned grid has been set by the main thread
BinnedComplete ==
    \A r \in 0..(rows - 1) : writes[1][r] = 1 /\ binned_data[r] = BinRow(r)

\* the binned grid has been wrapped in its Arc
Published == pc \in {"dispatch2", "recv2", "write", "done"}

\* C21: a percentile worker exists, and so reads the binned grid, only once
\* the main thread has set every row of the binned grid; from the
\* publication on, neither the binned grid nor the input grid changes.
C21_StageOrdering ==
    /\ []((Published \/ \E w \in DOMAIN workers : workers[w].pass = 2)
            => BinnedComplete)
    /\ [][Published => (binned_data' = binned_data /\ input' = input)]_vars

\* a percentile worker has scanned a row of the complete binned grid while
\* the main thread is still dispatching the blocks of the second pass
C21_Witness ==
    /\ pc = "dispatch2"
    /\ rows = 3
    /\ BinnedComplete
    /\ \E w \in DOMAIN workers :
          /\ workers[w].pass = 2
          /\ workers[w].row > workers[w].starting_row
    /\ ending_row < rows

\* a step of a worker thread: a thread sends, fails or returns, and the
\* main thread stays where it is
WorkerMoves ==
    /\ workers' # workers \/ Len(chan') > Len(chan)
    /\ UNCHANGED mainVars

\* a step of the receive loop that stores the row of the first message
Stores(grid, grid2) ==
    /\ chan # << >>
    /\ grid2 = [grid EXCEPT ![Head(chan)[1]] = Head(chan)[2]]
    /\ received' = received + 1
    /\ workers' = workers

\* C22: the binned grid changes only when the main thread allocates it or
\* stores a received row in the first receive loop, the output raster only
\* when the main thread creates it or stores a received row in the second
\* receive loop; a step of a worker changes the worker and the channel and
\* neither grid.
C22_SingleWriter ==
    [][/\ binned_data' # binned_data =>
             \/ pc = "start" /\ workers' = workers
             \/ pc = "recv1" /\ Stores(binned_data, binned_data')
       /\ output' # output =>
             \/ pc = "recv1" /\ pc' = "dispatch2" /\ workers' = workers
             \/ pc = "recv2" /\ Stores(output, output')
       /\ WorkerMoves =>
             UNCHANGED << binned_data, output, writes, input >>]_vars

\* the main thread has stored a row of the output while one percentile
\* worker is still running and the row of another waits in the channel
C22_Witness ==
    /\ pc = "recv2"
    /\ rows = 3
    /\ received = 1
    /\ \E r \in 0..(rows - 1) : writes[2][r] = 1
    /\ \E w \in DOMAIN workers : Running(w) /\ workers[w].pass = 2
    /\ Len(chan) = 1

----------------------------------------------------------------------------
(* Range of the emitted percentile.                                        *)

\* the next column of the row will be processed by an incremental update
NextIsIncremental ==
    /\ col < columns
    /\ ~panicked
    /\ get_value(row, col) # bin_nodata
    /\ old_bin_val # bin_nodata

\* the locals in the middle of that update: the trailing column removed
AfterRemoval ==
    CountColumn(Locals, row - midpoint_y, row + midpoint_y,
                TrailingCol(col), old_bin_val, -1)

\* the locals in the middle of that update: the leading column added
AfterAddition ==
    CountColumn(AfterRemoval, row - midpoint_y, row + midpoint_y,
                LeadingCol(col), old_bin_val, 1)

\* C23: n and n_less_than are never negative, between the columns of a row
\* and in the middle of an incremental update alike; at every processed
\* column whose centre bin is valid the window holds at least the centre,
\* n >= 1, the centre itself is not below the centre, n_less_than <= n - 1,
\* and the value written lies in [0, 100) and is not nodata.
C23_OutputRange ==
    /\ n >= 0
    /\ n_less_than >= 0
    /\ NextIsIncremental =>
          /\ AfterRemoval.n >= 0
          /\ AfterRemoval.n_less_than >= 0
          /\ AfterAddition.n >= 0
          /\ AfterAddition.n_less_than >= 0
    /\ (col >= 1 /\ ~panicked /\ get_value(row, col - 1) # bin_nodata) =>
          /\ n >= 1
          /\ n_less_than <= n - 1
          /\ data[col - 1] >= 0
          /\ data[col - 1] < 100 * ZScale
          /\ data[col - 1] # nodata

\* a column reached by an incremental update whose centre is above every
\* other valid cell of its window, after a column whose removal and
\* addition both change the counts
C23_Witness ==
    /\ col >= 2
    /\ ~panicked
    /\ get_value(row, col - 1) # bin_nodata
    /\ get_value(row, col - 2) # bin_nodata
    /\ n >= 3
    /\ n_less_than = n - 1
    /\ data[col - 1] > 0

====
